---------------------------- MODULE Spec2Model ----------------------------
(***************************************************************************)
(* animateTSP (src/animated_visualizer.py): playback of a recorded         *)
(* simulated-annealing run in three panels (tour path, temperature trace,  *)
(* cost trace), driven by matplotlib's FuncAnimation.                      *)
(*                                                                         *)
(* Numbers.  Coordinates and series values are integers.  Every axis limit *)
(* is held in hundredths (the integer n stands for n/100), so that the     *)
(* float factors of the source are exact: 0.05 -> 5, 0.9 -> 90, 1.1 -> 110,*)
(* 0.95 -> 95, 1.05 -> 105.                                                *)
(*                                                                         *)
(* Lists.  Python lists are 0-based, TLA+ sequences 1-based: list[k] is    *)
(* seq[k + 1].  An optional history is a record [present, vals]; None is   *)
(* present = FALSE.  The tour history is held as its length and a period:  *)
(* history[k] = cycle[k mod period]; with period = len this is an          *)
(* arbitrary list, with a short period a long list stays a small value.    *)
(***************************************************************************)
EXTENDS Integers, Sequences, FiniteSets

VARIABLES
    history,          \* [len, cycle]: the tour history (argument)
    points,           \* sequence of <<x, y>> (argument)
    temp_history,     \* [present, vals] (argument, optional)
    weight_history,   \* [present, vals] (argument, optional)
    key_frames_mult,  \* the sampling stride, line 29
    frames,           \* [stop, step]: range(0, stop, step) given to FuncAnimation
    cursor,           \* number of frames the driver has taken from the range
    status,           \* Uninitialized, Initialized, Playing, Done, Failed
    raised,           \* "" or the handler whose exception ended the run
    frame,            \* argument of the last update call (-1: none yet)
    actual_frame,     \* history index computed by the last update call
    ax1,              \* tour axes: city markers, limits, legend
    line,             \* path line data [x, y]
    ax2,              \* temperature axes
    temp_line,        \* artist data [x, y]
    temp_points,      \* artist data [x, y]
    ax3,              \* cost axes
    cost_line,        \* artist data [x, y]
    cost_points       \* artist data [x, y]

inputs == <<history, points, temp_history, weight_history, key_frames_mult, frames>>
driver == <<cursor, status, raised, frame, actual_frame>>
tourPanel == <<ax1, line>>
tempPanel == <<ax2, temp_line, temp_points>>
costPanel == <<ax3, cost_line, cost_points>>
vars == <<inputs, driver, tourPanel, tempPanel, costPanel>>

---------------------------------------------------------------------------
(* Program constants                                                        *)

FRAME_BUDGET == 9000
PadPct == 5
TempLowPct == 90
TempHighPct == 110
CostLowPct == 95
CostHighPct == 105

(* Bounds of the model                                                      *)

MaxLen == 3        \* longest enumerated tour history (short runs)
MaxSeries == 2     \* longest temperature / cost history
MaxStride == 2     \* largest stride reached by the long runs

---------------------------------------------------------------------------
(* Python helpers                                                           *)

Max2(a, b) == IF a >= b THEN a ELSE b

SeqMin(s) == CHOOSE m \in {s[i] : i \in 1..Len(s)} : \A i \in 1..Len(s) : m <= s[i]
SeqMax(s) == CHOOSE m \in {s[i] : i \in 1..Len(s)} : \A i \in 1..Len(s) : m >= s[i]

\* len(range(0, stop, step)) and range(0, stop, step)[i]
RangeLen(r) == IF r.stop <= 0 THEN 0 ELSE (r.stop + r.step - 1) \div r.step
RangeAt(r, i) == i * r.step

\* list(range(n))
Iota(n) == [i \in 1..n |-> i - 1]

\* truth value of an optional list: None and [] are false
Truthy(h) == h.present /\ Len(h.vals) > 0

\* history[k]
HistoryAt(k) == history.cycle[(k % Len(history.cycle)) + 1]

\* points[i] exists (indices are non-negative in the model)
ValidIndex(i) == i >= 0 /\ i < Len(points)

Data(x, y) == [x |-> x, y |-> y]
Empty == Data(<<>>, <<>>)
DefaultLim == <<0, 100>>

---------------------------------------------------------------------------
(* Frame sampler, line 29                                                   *)

\* variants: the quotient rounded up; no thinning at all
KeyFramesMult_Ceil(n) == Max2(1, (n + FRAME_BUDGET - 1) \div FRAME_BUDGET)
KeyFramesMult_One(n) == 1

KeyFramesMult(n) == Max2(1, n \div FRAME_BUDGET)

---------------------------------------------------------------------------
(* Scale / range helpers                                                    *)

\* lines 61-64: (min - span * 0.05, max + span * 0.05), in hundredths
Padded(v) ==
    LET lo == SeqMin(v)
        hi == SeqMax(v)
        extra == (hi - lo) * PadPct
    IN  <<100 * lo - extra, 100 * hi + extra>>

\* lines 73, 81, 120, 140: (min(h) * lo, max(h) * hi), in hundredths
SeriesYLim(h, lo, hi) == <<SeqMin(h.vals) * lo, SeqMax(h.vals) * hi>>

\* lines 72, 80, 119, 139: (0, len(h))
SeriesXLim(h) == <<0, 100 * Len(h.vals)>>

---------------------------------------------------------------------------
(* Construction, lines 29-51: stride, figure, axes, empty line artists      *)

Title(label, value, decimals) == [label |-> label, value |-> value, decimals |-> decimals]

NewSeriesAxes(label, ylabel) ==
    [title |-> Title(label, <<>>, 0), xlabel |-> "Iteration", ylabel |-> ylabel,
     grid |-> FALSE, xlim |-> DefaultLim, ylim |-> DefaultLim,
     lines |-> <<Empty, Empty>>, attached |-> TRUE]

Construct(h, p, t, w) ==
    /\ history = h
    /\ points = p
    /\ temp_history = t
    /\ weight_history = w
    /\ key_frames_mult = KeyFramesMult(h.len)
    /\ frames = [stop |-> h.len, step |-> KeyFramesMult(h.len)]
    /\ cursor = 0
    /\ status = "Uninitialized"
    /\ raised = ""
    /\ frame = -1
    /\ actual_frame = -1
    /\ ax1 = [title |-> "TSP Path", cities |-> <<>>,
              xlim |-> DefaultLim, ylim |-> DefaultLim, legend |-> FALSE]
    /\ line = Empty
    /\ ax2 = NewSeriesAxes("Temperature", "Temperature")
    /\ temp_line = Empty
    /\ temp_points = Empty
    /\ ax3 = NewSeriesAxes("Cost Function", "Cost")
    /\ cost_line = Empty
    /\ cost_points = Empty

---------------------------------------------------------------------------
(* init(), lines 53-86                                                      *)

\* lines 56-57: history[0] of an empty history and points[i] of an index
\* outside points raise IndexError; lines 61-62: max() of an empty tour
\* raises ValueError
InitRaises ==
    \/ history.len = 0
    \/ Len(HistoryAt(0)) = 0
    \/ \E k \in 1..Len(HistoryAt(0)) : ~ValidIndex(HistoryAt(0)[k])

\* lines 56-57: coordinate c (1: x, 2: y) of the points of a tour
Coords(tour, c) == [k \in 1..Len(tour) |-> points[tour[k] + 1][c]]

\* lines 71-76, 79-84: limits and grid when the history is non-empty; the two
\* line artists are emptied, which shows while they are still on the axes
InitSeriesAxes(ax, h, lo, hi) ==
    LET shown == IF ax.attached THEN <<Empty, Empty>> ELSE ax.lines IN
    IF Truthy(h)
    THEN [ax EXCEPT !.xlim = SeriesXLim(h), !.ylim = SeriesYLim(h, lo, hi),
                    !.grid = TRUE, !.lines = shown]
    ELSE [ax EXCEPT !.lines = shown]

init ==
    LET x == Coords(HistoryAt(0), 1)
        y == Coords(HistoryAt(0), 2)
    IN  /\ ax1' = [ax1 EXCEPT !.cities = Append(@, Data(x, y)),
                              !.xlim = Padded(x), !.ylim = Padded(y),
                              !.legend = TRUE]
        /\ line' = Empty
        /\ ax2' = InitSeriesAxes(ax2, temp_history, TempLowPct, TempHighPct)
        /\ temp_line' = Empty
        /\ temp_points' = Empty
        /\ ax3' = InitSeriesAxes(ax3, weight_history, CostLowPct, CostHighPct)
        /\ cost_line' = Empty
        /\ cost_points' = Empty

---------------------------------------------------------------------------
(* update(frame), lines 88-142                                              *)

\* line 90
ActualFrame(f) == f * key_frames_mult

\* lines 94-99: the tour closed into a cycle
Closed(tour) == tour \o <<tour[1]>>

\* lines 93-99: the lookup raises IndexError on an empty tour or on an index
\* outside points
TourRaises(a) ==
    /\ a < history.len
    /\ \/ Len(HistoryAt(a)) = 0
       \/ \E k \in 1..Len(HistoryAt(a)) : ~ValidIndex(HistoryAt(a)[k])

\* variant: the last index of the history is left out
PanelGuard_Strict(h, a) == Truthy(h) /\ a + 1 < Len(h.vals)

\* lines 103, 123
PanelGuard(h, a) == Truthy(h) /\ a < Len(h.vals)

\* variant: h[: a], the current value left out
Prefix_Exclusive(h, a) == SubSeq(h.vals, 1, a)

\* lines 105, 125: h[: a + 1]
Prefix(h, a) == SubSeq(h.vals, 1, a + 1)

\* lines 108, 113, 128, 133: the current point
Marker(h, a) == Data(<<a>>, <<h.vals[a + 1]>>)

\* lines 111-120, 131-140: clear the axes (which takes the two line artists
\* off them) and draw the prefix and the current point again
RedrawSeriesAxes(h, a, label, decimals, ylabel, lo, hi) ==
    [title |-> Title(label, <<h.vals[a + 1]>>, decimals),
     xlabel |-> "Iteration", ylabel |-> ylabel, grid |-> TRUE,
     xlim |-> SeriesXLim(h), ylim |-> SeriesYLim(h, lo, hi),
     lines |-> <<Data(Iota(a + 1), Prefix(h, a)), Marker(h, a)>>,
     attached |-> FALSE]

update(f) ==
    LET a == ActualFrame(f) IN
    /\ frame' = f
    /\ actual_frame' = a
    /\ IF TourRaises(a)
       THEN /\ status' = "Failed"
            /\ raised' = "update"
            /\ UNCHANGED <<tourPanel, tempPanel, costPanel>>
       ELSE /\ status' = "Playing"
            /\ raised' = raised
            /\ ax1' = ax1
            /\ line' = IF a < history.len
                       THEN Data(Coords(Closed(HistoryAt(a)), 1),
                                 Coords(Closed(HistoryAt(a)), 2))
                       ELSE line
            /\ IF PanelGuard(temp_history, a)
               THEN /\ temp_line' = Data(Iota(a + 1), Prefix(temp_history, a))
                    /\ temp_points' = Marker(temp_history, a)
                    /\ ax2' = RedrawSeriesAxes(temp_history, a, "Temperature: ", 6,
                                               "Temperature", TempLowPct, TempHighPct)
               ELSE UNCHANGED tempPanel
            /\ IF PanelGuard(weight_history, a)
               THEN /\ cost_line' = Data(Iota(a + 1), Prefix(weight_history, a))
                    /\ cost_points' = Marker(weight_history, a)
                    /\ ax3' = RedrawSeriesAxes(weight_history, a, "Cost: ", 2,
                                               "Cost", CostLowPct, CostHighPct)
               ELSE UNCHANGED costPanel

---------------------------------------------------------------------------
(* The driver, lines 145-153: FuncAnimation(fig, update, frames = range,    *)
(* init_func = init, repeat = False), started by plt.show() (line 156).     *)
(* The animation calls init_func once when it starts, then on every timer   *)
(* tick takes the next frame of the range and calls update with it; when    *)
(* the range is exhausted it stops, or, with repeat, calls init_func again  *)
(* and starts over.  An exception in init_func keeps the timer from         *)
(* starting; an exception in update ends the run in the model.              *)

\* variant: repeat left at FuncAnimation's default
Repeat_True == TRUE

\* line 151
Repeat == FALSE

\* variant: no init_func, the timer's first call is update
Ticking_Early == status \in {"Uninitialized", "Initialized", "Playing"}

Ticking == status \in {"Initialized", "Playing"}

Start ==
    /\ status = "Uninitialized"
    /\ IF InitRaises
       THEN /\ status' = "Failed"
            /\ raised' = "init"
            /\ UNCHANGED <<tourPanel, tempPanel, costPanel>>
       ELSE /\ status' = "Initialized"
            /\ raised' = raised
            /\ init
    /\ UNCHANGED <<inputs, cursor, frame, actual_frame>>

Step ==
    /\ Ticking
    /\ cursor < RangeLen(frames)
    /\ cursor' = cursor + 1
    /\ update(RangeAt(frames, cursor))
    /\ UNCHANGED inputs

Finish ==
    /\ Ticking
    /\ cursor >= RangeLen(frames)
    /\ IF Repeat
       THEN /\ status' = "Initialized"
            /\ cursor' = 0
            /\ init
       ELSE /\ status' = "Done"
            /\ cursor' = cursor
            /\ UNCHANGED <<tourPanel, tempPanel, costPanel>>
    /\ UNCHANGED <<inputs, raised, frame, actual_frame>>

Next == Start \/ Step \/ Finish

---------------------------------------------------------------------------
(* Inputs                                                                   *)

SeqsUpTo(S, lo, hi) == UNION {[1..n -> S] : n \in lo..hi}

None == [present |-> FALSE, vals |-> <<>>]
Some(s) == [present |-> TRUE, vals |-> s]

PointSets == { <<<<0, 0>>, <<1, 0>>, <<1, 1>>>>,
               <<<<-3, 2>>, <<0, 0>>, <<5, 7>>>> }

\* permutations of the point indices and a prefix of one
Tours == { <<0, 1, 2>>, <<1, 2, 0>>, <<0, 1>> }

\* a tour naming an index outside a three-point set
BadTour == <<0, 3>>

SeriesVals == {-2, 0, 3}
Series == {None} \cup {Some(s) : s \in SeqsUpTo(SeriesVals, 0, MaxSeries)}
BasicSeries == {None, Some(<<>>), Some(<<3, 1>>)}

List(c) == [len |-> Len(c), cycle |-> c]

\* short well-formed runs: every tour list up to MaxLen, and every pair of
\* optional histories of which one is arbitrary and the other basic
Init ==
    \E c \in SeqsUpTo(Tours, 1, MaxLen), p \in PointSets,
       s \in Series, b \in BasicSeries, swap \in BOOLEAN :
        Construct(List(c), p, IF swap THEN b ELSE s, IF swap THEN s ELSE b)

\* long runs: history lengths around the multiples of the frame budget
LongLens ==
    (0..MaxLen) \cup
    {k * FRAME_BUDGET + d : k \in 1..MaxStride, d \in {0, 1, FRAME_BUDGET - 1}}

InitLong ==
    \E n \in LongLens, t \in BasicSeries :
        Construct([len |-> n, cycle |-> <<<<0, 1, 2>>, <<1, 2, 0>>>>],
                  <<<<0, 0>>, <<1, 0>>, <<1, 1>>>>, t, None)

\* short runs whose tour list may be empty or name a point that does not exist
InitMalformed ==
    \E c \in SeqsUpTo(Tours \cup {BadTour}, 0, MaxLen), t \in BasicSeries :
        Construct(List(c), <<<<0, 0>>, <<1, 0>>, <<1, 1>>>>, t, None)

Spec == Init /\ [][Next]_vars
SpecLong == InitLong /\ [][Next]_vars
SpecMalformed == InitMalformed /\ [][Next]_vars
\* the backend's timer keeps ticking until the animation stops it
LiveSpec == Init /\ [][Next]_vars /\ WF_vars(Next)

---------------------------------------------------------------------------
(* Properties                                                               *)

UpdateCalled == frame >= 0
Rendering == status \in {"Initialized", "Playing", "Done"}

\* C1: in every update call the history index used for the look-ups is the
\* frame the driver passed, and it is an index of the tour history.
C1_ActualIndexIsFrame ==
    UpdateCalled => (actual_frame = frame /\ actual_frame <= history.len - 1)

\* C2: the stride is max(1, floor(L / B)): at least 1, 1 below the budget,
\* otherwise the s with s * B <= L < (s + 1) * B; it is the step of the
\* enumerated range; an empty history gives stride 1 and no frame; and no
\* step changes it.
C2_StrideValue ==
    /\ key_frames_mult >= 1
    /\ history.len < FRAME_BUDGET => key_frames_mult = 1
    /\ history.len >= FRAME_BUDGET =>
          /\ key_frames_mult * FRAME_BUDGET <= history.len
          /\ history.len < (key_frames_mult + 1) * FRAME_BUDGET
    /\ frames.step = key_frames_mult
    /\ history.len = 0 =>
          /\ key_frames_mult = 1
          /\ RangeLen(frames) = 0
          /\ cursor = 0
          /\ ~UpdateCalled
C2_Stride ==
    /\ []C2_StrideValue
    /\ [][key_frames_mult' = key_frames_mult /\ frames' = frames]_vars
C2_Witness ==
    /\ history.len >= 2 * FRAME_BUDGET
    /\ key_frames_mult = 2
    /\ cursor > 1

PanelDue(h, a) == h.present /\ h.vals # <<>> /\ a < Len(h.vals)
ShowsIndex(ax, h, a) ==
    /\ ax.title.value = <<h.vals[a + 1]>>
    /\ ax.lines[2].x = <<a>>
    /\ ax.xlim = <<0, 100 * Len(h.vals)>>
C4_PanelUpdatedIffInRange ==
    [][cursor' = cursor + 1 =>
          /\ status' = "Playing" /\ raised' = ""
          /\ IF PanelDue(temp_history, actual_frame')
             THEN ShowsIndex(ax2', temp_history, actual_frame')
             ELSE UNCHANGED tempPanel
          /\ IF PanelDue(weight_history, actual_frame')
             THEN ShowsIndex(ax3', weight_history, actual_frame')
             ELSE UNCHANGED costPanel]_vars
\* the cost panel skipped at index 1 still shows the render of index 0
C4_Witness ==
    /\ status = "Playing"
    /\ actual_frame = 1
    /\ Len(weight_history.vals) = 1
    /\ ax3.title.value = <<weight_history.vals[1]>>
    /\ PanelDue(temp_history, actual_frame)

\* C5: after an update call whose index a is inside the temperature (cost)
\* history, the panel shows exactly two artists: the series h[0..a] against
\* the iterations 0..a, and one marker at (a, h[a]).
ShowsPrefix(ax, h, a) ==
    /\ Len(ax.lines) = 2
    /\ Len(ax.lines[1].x) = a + 1
    /\ Len(ax.lines[1].y) = a + 1
    /\ \A i \in 1..(a + 1) : ax.lines[1].x[i] = i - 1 /\ ax.lines[1].y[i] = h.vals[i]
    /\ ax.lines[2] = [x |-> <<a>>, y |-> <<h.vals[a + 1]>>]
C5_VisiblePrefix ==
    (UpdateCalled /\ status # "Failed") =>
        /\ PanelDue(temp_history, actual_frame) =>
              ShowsPrefix(ax2, temp_history, actual_frame)
        /\ PanelDue(weight_history, actual_frame) =>
              ShowsPrefix(ax3, weight_history, actual_frame)
C5_Witness ==
    /\ actual_frame = 1
    /\ temp_history.present /\ Len(temp_history.vals) = 2
    /\ temp_history.vals[1] # temp_history.vals[2]
    /\ ax2.lines[1].y = temp_history.vals
    /\ ~weight_history.present

\* C6: a run on an empty tour history, or on one in which any tour names a
\* point that does not exist, fails in init, before any frame is played.
Malformed ==
    \/ history.len = 0
    \/ \E k \in 0..(history.len - 1) :
          \E i \in 1..Len(HistoryAt(k)) : ~ValidIndex(HistoryAt(k)[i])
C6_FailFast ==
    (Malformed /\ status = "Failed") => (raised = "init" /\ cursor = 0)

\* C7: every update call starts from a state in which init has drawn the
\* city markers, the legend and a tour box holding them, and has set the
\* limits and grid of each series panel whose history is non-empty; and
\* right after init every line artist is empty.
InBox(xlim, xs) == \A i \in 1..Len(xs) : xlim[1] <= 100 * xs[i] /\ 100 * xs[i] <= xlim[2]
SeriesReady(ax, h) ==
    (h.present /\ h.vals # <<>>) =>
        (ax.grid /\ ax.xlim = <<0, 100 * Len(h.vals)>>)
PanelsInitialized ==
    /\ Len(ax1.cities) = 1
    /\ ax1.legend
    /\ InBox(ax1.xlim, ax1.cities[1].x)
    /\ InBox(ax1.ylim, ax1.cities[1].y)
    /\ SeriesReady(ax2, temp_history)
    /\ SeriesReady(ax3, weight_history)
C7_InitBeforeUpdate ==
    /\ [][cursor' = cursor + 1 => PanelsInitialized]_vars
    /\ [](status = "Initialized" =>
            /\ PanelsInitialized
            /\ line = Empty /\ temp_line = Empty /\ temp_points = Empty
            /\ cost_line = Empty /\ cost_points = Empty
            /\ ax2.lines = <<Empty, Empty>> /\ ax3.lines = <<Empty, Empty>>)
C7_Witness == status = "Playing" /\ cursor = 1 /\ PanelsInitialized

\* C8: the first frame is 0; every tick takes exactly one frame, larger than
\* the one before; with the timer ticking every started run reaches Done
\* after the last frame of the range; and nothing changes after Done.
C8_RunsToDone ==
    /\ [][cursor' # cursor =>
            /\ cursor' = cursor + 1
            /\ frame' > frame
            /\ (cursor = 0 => frame' = 0)]_vars
    /\ (status = "Uninitialized" ~> status = "Done")
    /\ [](status = "Done" => cursor = RangeLen(frames) /\ cursor > 0)
    /\ [][status = "Done" => UNCHANGED vars]_vars
C8_Witness == status = "Done" /\ cursor = MaxLen /\ frame = MaxLen - 1

\* C9: once init has run, the tour box is the box of the whole point set
\* padded by 5% of each span, and every vertex of the drawn path is inside
\* it.
AllCoords(c) == [k \in 1..Len(points) |-> points[k][c]]
C9_BoxOfAllPoints ==
    Rendering =>
        /\ ax1.xlim = Padded(AllCoords(1))
        /\ ax1.ylim = Padded(AllCoords(2))
        /\ InBox(ax1.xlim, line.x)
        /\ InBox(ax1.ylim, line.y)

\* C10: once init has run, the y-limits of a series panel whose history is
\* non-empty are (min * 0.9, max * 1.1) for temperature and (min * 0.95,
\* max * 1.05) for cost, and every value of the history is inside them.
WithinYLim(ax, h) ==
    \A i \in 1..Len(h.vals) : ax.ylim[1] <= 100 * h.vals[i] /\ 100 * h.vals[i] <= ax.ylim[2]
C10_SeriesInsideLimits ==
    Rendering =>
        /\ (temp_history.present /\ temp_history.vals # <<>>) =>
              /\ ax2.ylim = <<SeqMin(temp_history.vals) * 90, SeqMax(temp_history.vals) * 110>>
              /\ WithinYLim(ax2, temp_history)
        /\ (weight_history.present /\ weight_history.vals # <<>>) =>
              /\ ax3.ylim = <<SeqMin(weight_history.vals) * 95, SeqMax(weight_history.vals) * 105>>
              /\ WithinYLim(ax3, weight_history)

====
